---- MODULE Spec2Model ----
(***************************************************************************)
(* Model of the renamer plugin MediaDateTime (renamer-media-date-time).    *)
(*                                                                         *)
(* The engine object holds two caches, #indexMap and #dirCache, and has    *)
(* one operation, replace(filePath).  A JavaScript string is modelled as   *)
(* a sequence of one-character strings, so that path parsing, regular      *)
(* expression matching, lower-casing, date parsing and date formatting     *)
(* are computed the way the code computes them.                            *)
(*                                                                         *)
(* Environment assumptions: POSIX path semantics; the local time zone is   *)
(* UTC without daylight saving, so that date-fns parse followed by format  *)
(* reproduces a valid wall-clock time.                                     *)
(***************************************************************************)
EXTENDS Integers, Sequences, FiniteSets, TLC

VARIABLES indexMap, dirCache, disk, readCount, returned, renames, last

vars == <<indexMap, dirCache, disk, readCount, returned, renames, last>>

(***************************************************************************)
(* Bound of the model: the number of replace calls in one run.             *)
(***************************************************************************)
MaxCalls == 3

(***************************************************************************)
(* Characters and generic string functions of the JavaScript runtime.      *)
(***************************************************************************)
Digits == <<"0", "1", "2", "3", "4", "5", "6", "7", "8", "9">>

UpperCase == <<"A", "B", "C", "D", "E", "F", "G", "H", "I", "J", "K", "L", "M",
               "N", "O", "P", "Q", "R", "S", "T", "U", "V", "W", "X", "Y", "Z">>

LowerCase == <<"a", "b", "c", "d", "e", "f", "g", "h", "i", "j", "k", "l", "m",
               "n", "o", "p", "q", "r", "s", "t", "u", "v", "w", "x", "y", "z">>

Range(f) == {f[i] : i \in DOMAIN f}

DigitSet == Range(Digits)

DigitValues == [c \in DigitSet |-> (CHOOSE i \in DOMAIN Digits : Digits[i] = c) - 1]

IsDigit(c) == c \in DigitSet

DigitVal(c) == DigitValues[c]

IsSpace(c) == c \in {" ", "\t", "\r"}

UpperSet == Range(UpperCase)

LowerOfUpper ==
    [c \in UpperSet |-> LowerCase[CHOOSE i \in DOMAIN UpperCase : UpperCase[i] = c]]

\* String.prototype.toLowerCase on one character
LowerChar(c) == IF c \in UpperSet THEN LowerOfUpper[c] ELSE c

\* String.prototype.toLowerCase
toLowerCase(s) == [i \in 1..Len(s) |-> LowerChar(s[i])]

\* s holds t at (1-based) position i
HasAt(s, t, i) == i >= 1 /\ i + Len(t) - 1 <= Len(s) /\ SubSeq(s, i, i + Len(t) - 1) = t

\* the first position from i on where s holds t, 0 when there is none
RECURSIVE IndexFrom(_, _, _)
IndexFrom(s, t, i) ==
    IF i + Len(t) - 1 > Len(s) THEN 0
    ELSE IF HasAt(s, t, i) THEN i
    ELSE IndexFrom(s, t, i + 1)

\* String.prototype.indexOf, 1-based, 0 when t does not occur
IndexOf(s, t) == IndexFrom(s, t, 1)

\* the last position up to i where s holds the character c, 0 when none
RECURSIVE LastIndexUpTo(_, _, _)
LastIndexUpTo(s, c, i) ==
    IF i = 0 THEN 0
    ELSE IF s[i] = c THEN i
    ELSE LastIndexUpTo(s, c, i - 1)

\* String.prototype.lastIndexOf for one character, 1-based, 0 when absent
LastIndexOfChar(s, c) == LastIndexUpTo(s, c, Len(s))

\* String.prototype.split with a separator; an empty separator splits
\* the string into its characters
RECURSIVE split(_, _)
split(s, sep) ==
    IF sep = <<>>
    THEN [i \in 1..Len(s) |-> <<s[i]>>]
    ELSE LET i == IndexOf(s, sep)
         IN  IF i = 0
             THEN <<s>>
             ELSE <<SubSeq(s, 1, i - 1)>> \o split(SubSeq(s, i + Len(sep), Len(s)), sep)

\* Array.prototype.join
RECURSIVE join(_, _)
join(parts, sep) ==
    IF parts = <<>> THEN <<>>
    ELSE IF Len(parts) = 1 THEN parts[1]
    ELSE parts[1] \o sep \o join(Tail(parts), sep)

\* String.prototype.trim
RECURSIVE trimStart(_)
trimStart(s) == IF s # <<>> /\ IsSpace(Head(s)) THEN trimStart(Tail(s)) ELSE s

RECURSIVE trimEnd(_)
trimEnd(s) ==
    IF s # <<>> /\ IsSpace(s[Len(s)]) THEN trimEnd(SubSeq(s, 1, Len(s) - 1)) ELSE s

trim(s) == trimEnd(trimStart(s))

\* s.replace(/\s/gi, "")
stripWhitespace(s) == SelectSeq(s, LAMBDA c : ~IsSpace(c))

\* String.prototype.substring(0, n)
substring0(s, n) == SubSeq(s, 1, IF n < Len(s) THEN n ELSE Len(s))

\* parseInt(s, 10) of a run of digits
RECURSIVE parseInt(_)
parseInt(s) ==
    IF s = <<>> THEN 0
    ELSE 10 * parseInt(SubSeq(s, 1, Len(s) - 1)) + DigitVal(s[Len(s)])

\* String(n) of a natural number
RECURSIVE numberToString(_)
numberToString(n) ==
    IF n < 10 THEN <<Digits[n + 1]>>
    ELSE numberToString(n \div 10) \o <<Digits[(n % 10) + 1]>>

\* number of leading digits of s, at most max
RECURSIVE digitRun(_, _)
digitRun(s, max) ==
    IF max = 0 \/ s = <<>> \/ ~IsDigit(Head(s)) THEN 0
    ELSE 1 + digitRun(Tail(s), max - 1)

(***************************************************************************)
(* path.parse and path.join of Node's POSIX path module.                   *)
(***************************************************************************)
\* path.parse(p) for a path without a trailing slash
pathParse(p) ==
    LET slash == LastIndexOfChar(p, "/")
        base  == SubSeq(p, slash + 1, Len(p))
        dir   == IF slash = 0 THEN <<>>
                 ELSE IF slash = 1 THEN <<"/">>
                 ELSE SubSeq(p, 1, slash - 1)
        dot   == LastIndexOfChar(base, ".")
        ext   == IF dot <= 1 \/ base = <<".", ".">> THEN <<>>
                 ELSE SubSeq(base, dot, Len(base))
    IN  [dir |-> dir, base |-> base, ext |-> ext,
         name |-> SubSeq(base, 1, Len(base) - Len(ext))]

\* normalizeString: drops empty and "." segments and resolves ".."
RECURSIVE normalizeSegments(_, _, _)
normalizeSegments(segs, acc, absolute) ==
    IF segs = <<>> THEN acc
    ELSE LET seg == Head(segs)
         IN  IF seg = <<>> \/ seg = <<".">>
             THEN normalizeSegments(Tail(segs), acc, absolute)
             ELSE IF seg = <<".", ".">>
             THEN IF acc # <<>> /\ acc[Len(acc)] # <<".", ".">>
                  THEN normalizeSegments(Tail(segs), SubSeq(acc, 1, Len(acc) - 1), absolute)
                  ELSE IF absolute
                  THEN normalizeSegments(Tail(segs), acc, absolute)
                  ELSE normalizeSegments(Tail(segs), Append(acc, seg), absolute)
             ELSE normalizeSegments(Tail(segs), Append(acc, seg), absolute)

\* path.normalize(p) for a path without a trailing slash
pathNormalize(p) ==
    LET absolute == p # <<>> /\ Head(p) = "/"
        body     == join(normalizeSegments(split(p, <<"/">>), <<>>, absolute), <<"/">>)
    IN  IF absolute THEN <<"/">> \o body
        ELSE IF body = <<>> THEN <<".">>
        ELSE body

\* path.join(a, b): the non-empty arguments joined by "/" and normalized
pathJoin(a, b) ==
    IF a = <<>> /\ b = <<>> THEN <<".">>
    ELSE IF a = <<>> THEN pathNormalize(b)
    ELSE IF b = <<>> THEN pathNormalize(a)
    ELSE pathNormalize(a \o <<"/">> \o b)

(***************************************************************************)
(* File classifier: isImage and isVideo.                                   *)
(***************************************************************************)
ExtJpg  == <<".", "j", "p", "g">>
ExtJpeg == <<".", "j", "p", "e", "g">>
ExtPng  == <<".", "p", "n", "g">>
ExtGif  == <<".", "g", "i", "f">>
ExtBmp  == <<".", "b", "m", "p">>
ExtHeic == <<".", "h", "e", "i", "c">>
ExtMp4  == <<".", "m", "p", "4">>
ExtMov  == <<".", "m", "o", "v">>

\* the alternatives of /\.(jpg|jpeg|png|gif|bmp|heic)$/
ImagePattern == {ExtJpg, ExtJpeg, ExtPng, ExtGif, ExtBmp, ExtHeic}

\* the alternatives of /\.(mp4|mov)$/
VideoPattern == {ExtMp4, ExtMov}

\* s.match(/(a1|a2|...)$/) != null: some alternative ends the string
matchesAtEnd(s, alternatives) ==
    \E a \in alternatives : HasAt(s, a, Len(s) - Len(a) + 1)

isImage(file) == matchesAtEnd(toLowerCase(file.ext), ImagePattern)

\* a classifier that takes every file with an extension for a video
isVideo_AnyExtension(file) == file.ext # <<>>

isVideo(file) == matchesAtEnd(toLowerCase(file.ext), VideoPattern)

(***************************************************************************)
(* String.prototype.match with the two filename patterns.  A match is the  *)
(* result array (here: found, index, groups); the patterns have no capture *)
(* group and no g flag, so the array holds the matched text alone.         *)
(***************************************************************************)
NoMatch == [found |-> FALSE, index |-> -1, groups |-> <<>>]

\* /\d{8}_\d{6,}/ matches s at (1-based) position i
stampAt(s, i) ==
    /\ i + 14 <= Len(s)
    /\ \A k \in i..(i + 7) : IsDigit(s[k])
    /\ s[i + 8] = "_"
    /\ \A k \in (i + 9)..(i + 14) : IsDigit(s[k])

\* the leftmost position from i on where /\d{8}_\d{6,}/ matches, 0 when none
RECURSIVE stampFrom(_, _)
stampFrom(s, i) ==
    IF i + 14 > Len(s) THEN 0
    ELSE IF stampAt(s, i) THEN i
    ELSE stampFrom(s, i + 1)

\* s.match(/\d{8}_\d{6,}/): the leftmost match, its time part greedy
matchStamp(s) ==
    LET i == stampFrom(s, 1)
    IN  IF i = 0 THEN NoMatch
        ELSE [found |-> TRUE, index |-> i - 1,
              groups |-> <<SubSeq(s, i, i + 8
                             + digitRun(SubSeq(s, i + 9, Len(s)), Len(s)))>>]

\* /1[5-8]\d{11}/ in the place of /15\d{11}/: a pattern that reaches 2028
epochAt_WiderPrefix(s, i) ==
    /\ i + 12 <= Len(s)
    /\ s[i] = "1"
    /\ s[i + 1] \in {"5", "6", "7", "8"}
    /\ \A k \in (i + 2)..(i + 12) : IsDigit(s[k])

\* /15\d{11}/ matches s at (1-based) position i
epochAt(s, i) ==
    /\ i + 12 <= Len(s)
    /\ s[i] = "1"
    /\ s[i + 1] = "5"
    /\ \A k \in (i + 2)..(i + 12) : IsDigit(s[k])

\* the leftmost position from i on where /15\d{11}/ matches, 0 when none
RECURSIVE epochFrom(_, _)
epochFrom(s, i) ==
    IF i + 12 > Len(s) THEN 0
    ELSE IF epochAt(s, i) THEN i
    ELSE epochFrom(s, i + 1)

\* s.match(/15\d{11}/): the leftmost match
matchEpoch(s) ==
    LET i == epochFrom(s, 1)
    IN  IF i = 0 THEN NoMatch
        ELSE [found |-> TRUE, index |-> i - 1, groups |-> <<SubSeq(s, i, i + 12)>>]

(***************************************************************************)
(* Dates: date-fns parse and format, and new Date(milliseconds).  A Date   *)
(* is its local calendar fields, or the Invalid Date.                      *)
(***************************************************************************)
InvalidDate ==
    [valid |-> FALSE, year |-> 0, month |-> 0, day |-> 0,
     hours |-> 0, minutes |-> 0, seconds |-> 0]

\* the format strings of the code, as date-fns tokenizes them
ExifFormat == <<"yyyy", ":", "MM", ":", "dd", " ", "HH", ":", "mm", ":", "ss">>

StampFormat == <<"yyyy", "MM", "dd", "_", "HH", "mm", "ss">>

NumericTokens == {"yyyy", "MM", "dd", "HH", "mm", "ss"}

\* date-fns parseNDigits(n): at most n digits, n the length of the token
TokenDigits(tok) == Len(tok)

IsLeapYear(y) == (y % 4 = 0 /\ y % 100 # 0) \/ y % 400 = 0

DaysInMonth(y, m) ==
    IF m = 2 THEN (IF IsLeapYear(y) THEN 29 ELSE 28)
    ELSE IF m \in {4, 6, 9, 11} THEN 30
    ELSE 31

\* the validate step of the date-fns parsers
fieldsValid(f) ==
    /\ f["yyyy"] > 0
    /\ f["MM"] \in 1..12
    /\ f["dd"] >= 1
    /\ f["dd"] <= DaysInMonth(f["yyyy"], f["MM"])
    /\ f["HH"] \in 0..23
    /\ f["mm"] \in 0..59
    /\ f["ss"] \in 0..59

\* date-fns parse, token by token: a numeric token takes its digits, any
\* other token must be the next character; a rest of the input, a missing
\* part or a value out of range gives the Invalid Date
RECURSIVE parseTokens(_, _, _)
parseTokens(s, tokens, fields) ==
    IF tokens = <<>>
    THEN IF s = <<>> /\ fieldsValid(fields)
         THEN [valid |-> TRUE, year |-> fields["yyyy"], month |-> fields["MM"],
               day |-> fields["dd"], hours |-> fields["HH"],
               minutes |-> fields["mm"], seconds |-> fields["ss"]]
         ELSE InvalidDate
    ELSE LET tok == Head(tokens)
         IN  IF tok \in NumericTokens
             THEN LET n == digitRun(s, TokenDigits(tok))
                  IN  IF n = 0 THEN InvalidDate
                      ELSE parseTokens(SubSeq(s, n + 1, Len(s)), Tail(tokens),
                                       [fields EXCEPT ![tok] = parseInt(SubSeq(s, 1, n))])
             ELSE IF s # <<>> /\ Head(s) = tok
                  THEN parseTokens(Tail(s), Tail(tokens), fields)
                  ELSE InvalidDate

\* parse(dateString, formatString, new Date(), {})
parse(dateString, tokens) ==
    parseTokens(dateString, tokens, [t \in NumericTokens |-> 0])

\* addLeadingZeros
RECURSIVE padZeros(_, _)
padZeros(s, width) == IF Len(s) >= width THEN s ELSE padZeros(<<"0">> \o s, width)

pad(n, width) == padZeros(numberToString(n), width)

\* format(date, "yyyyMMdd_HHmmss", {}): throws a RangeError on the Invalid
\* Date
format(date) ==
    IF ~date.valid
    THEN [threw |-> TRUE, text |-> <<>>]
    ELSE [threw |-> FALSE,
          text |-> pad(date.year, 4) \o pad(date.month, 2) \o pad(date.day, 2) \o <<"_">>
                   \o pad(date.hours, 2) \o pad(date.minutes, 2) \o pad(date.seconds, 2)]

\* the calendar date of a day number counted from 1970-01-01
civilFromDays(days) ==
    LET z   == days + 719468
        era == z \div 146097
        doe == z - era * 146097
        yoe == (doe - doe \div 1460 + doe \div 36524 - doe \div 146096) \div 365
        doy == doe - (365 * yoe + yoe \div 4 - yoe \div 100)
        mp  == (5 * doy + 2) \div 153
        d   == doy - (153 * mp + 2) \div 5 + 1
        m   == IF mp < 10 THEN mp + 3 ELSE mp - 9
        y   == yoe + era * 400 + (IF m <= 2 THEN 1 ELSE 0)
    IN  [year |-> y, month |-> m, day |-> d]

\* new Date(parseInt(digits)) for a string of 13 digits: the milliseconds
\* since the epoch.  The date's fields need the whole seconds only, which
\* are the first ten digits.
newDateFromMillis(digits) ==
    LET secs == parseInt(SubSeq(digits, 1, Len(digits) - 3))
        c    == civilFromDays(secs \div 86400)
        rest == secs % 86400
    IN  [valid |-> TRUE, year |-> c.year, month |-> c.month, day |-> c.day,
         hours |-> rest \div 3600, minutes |-> (rest % 3600) \div 60,
         seconds |-> rest % 60]

(***************************************************************************)
(* The metadata reader and the timestamp resolver.  An optional value is   *)
(* [defined, date]; execSync either throws or returns the tool's output.   *)
(***************************************************************************)
Undefined == [defined |-> FALSE, date |-> InvalidDate]

Some(date) == [defined |-> TRUE, date |-> date]

\* one line of the output: key and value, split at the first colon
exifEntry(line) ==
    LET parts == split(line, <<":">>)
    IN  [key   |-> stripWhitespace(trim(Head(parts))),
         value |-> trim(join(Tail(parts), <<":">>))]

\* #getExif on the decoded output: the map of the lines, a later line
\* overwriting an earlier one with the same key
getExif(outStr) ==
    LET lines   == split(outStr, <<"\n">>)
        entries == [i \in 1..Len(lines) |-> exifEntry(lines[i])]
        keys    == {entries[i].key : i \in 1..Len(entries)}
        lastOf(k) == CHOOSE i \in 1..Len(entries) :
                         entries[i].key = k /\ \A j \in (i + 1)..Len(entries) : entries[j].key # k
    IN  [k \in keys |-> entries[lastOf(k)].value]

KeyCreateDate == <<"C", "r", "e", "a", "t", "e", "D", "a", "t", "e">>

\* #getDateFromExif
getDateFromExif(exifMap) ==
    IF KeyCreateDate \in DOMAIN exifMap
    THEN Some(parse(Head(split(exifMap[KeyCreateDate], <<".">>)), ExifFormat))
    ELSE Undefined

\* file.base.split(file.ext)[0]
baseWithoutExt(file) == Head(split(file.base, file.ext))

\* a check that takes a name for correct only when the pattern is all of it
isCorrectFileName_WholeName(file) ==
    LET match == matchStamp(baseWithoutExt(file))
    IN  match.found /\ match.index = 0 /\ match.groups[1] = baseWithoutExt(file)

\* #isCorrectFileName
isCorrectFileName(file) ==
    LET match == matchStamp(baseWithoutExt(file))
    IN  match.found /\ Len(match.groups) = 1 /\ match.index = 0

\* #getDateFromFileName
getDateFromFileName(file) ==
    LET match == matchStamp(baseWithoutExt(file))
    IN  IF ~match.found \/ Len(match.groups) > 1
        THEN Undefined
        ELSE Some(parse(substring0(match.groups[1], 15), StampFormat))

\* an epoch step that takes the digits only at the start of the name
getDateFromUnixTimestamp_AtStart(file) ==
    LET match == matchEpoch(baseWithoutExt(file))
    IN  IF ~match.found \/ match.index # 0
        THEN Undefined
        ELSE Some(newDateFromMillis(substring0(match.groups[1], 13)))

\* #getDateFromUnixTimestamp
getDateFromUnixTimestamp(file) ==
    LET match == matchEpoch(baseWithoutExt(file))
    IN  IF ~match.found \/ Len(match.groups) > 1
        THEN Undefined
        ELSE Some(newDateFromMillis(substring0(match.groups[1], 13)))

\* what execSync does: it throws, or it returns the output of the tool
ExecThrows == [threw |-> TRUE, output |-> <<>>]

ExecReturns(output) == [threw |-> FALSE, output |-> output]

\* a resolver that reads a failed metadata tool as no metadata and goes on
\* with the filename
getDate_ContinueOnThrow(filePath, exec) ==
    LET file == pathParse(filePath)
        dateFromFileName == getDateFromFileName(file)
    IN  IF isCorrectFileName(file)
        THEN [threw |-> FALSE, result |-> Undefined, steps |-> <<"isCorrectFileName">>]
        ELSE IF ~exec.threw /\ getDateFromExif(getExif(exec.output)).defined
        THEN [threw |-> FALSE, result |-> getDateFromExif(getExif(exec.output)),
              steps |-> <<"isCorrectFileName", "getExif", "getDateFromExif">>]
        ELSE IF dateFromFileName.defined
        THEN [threw |-> FALSE, result |-> dateFromFileName,
              steps |-> <<"isCorrectFileName", "getExif", "getDateFromExif",
                          "getDateFromFileName">>]
        ELSE [threw |-> FALSE, result |-> getDateFromUnixTimestamp(file),
              steps |-> <<"isCorrectFileName", "getExif", "getDateFromExif",
                          "getDateFromFileName", "getDateFromUnixTimestamp">>]

\* a resolver that asks the filename first and the metadata tool last
getDate_FileNameFirst(filePath, exec) ==
    LET file == pathParse(filePath)
        dateFromFileName == getDateFromFileName(file)
        dateFromUnixTimestamp == getDateFromUnixTimestamp(file)
    IN  IF isCorrectFileName(file)
        THEN [threw |-> FALSE, result |-> Undefined, steps |-> <<"isCorrectFileName">>]
        ELSE IF dateFromFileName.defined
        THEN [threw |-> FALSE, result |-> dateFromFileName,
              steps |-> <<"isCorrectFileName", "getDateFromFileName">>]
        ELSE IF dateFromUnixTimestamp.defined
        THEN [threw |-> FALSE, result |-> dateFromUnixTimestamp,
              steps |-> <<"isCorrectFileName", "getDateFromFileName",
                          "getDateFromUnixTimestamp">>]
        ELSE IF exec.threw
        THEN [threw |-> TRUE, result |-> Undefined,
              steps |-> <<"isCorrectFileName", "getDateFromFileName",
                          "getDateFromUnixTimestamp", "getExif">>]
        ELSE [threw |-> FALSE, result |-> getDateFromExif(getExif(exec.output)),
              steps |-> <<"isCorrectFileName", "getDateFromFileName",
                          "getDateFromUnixTimestamp", "getExif", "getDateFromExif">>]

\* a #getDate that runs the tool before it looks at the name
getDate_ToolBeforeCheck(filePath, exec) ==
    LET file == pathParse(filePath)
    IN  IF exec.threw
        THEN [threw |-> TRUE, result |-> Undefined, steps |-> <<"getExif">>]
        ELSE IF isCorrectFileName(file)
        THEN [threw |-> FALSE, result |-> Undefined,
              steps |-> <<"getExif", "isCorrectFileName">>]
        ELSE LET dateFromExif == getDateFromExif(getExif(exec.output))
                 dateFromFileName == getDateFromFileName(file)
                 dateFromUnixTimestamp == getDateFromUnixTimestamp(file)
             IN  IF dateFromExif.defined
                 THEN [threw |-> FALSE, result |-> dateFromExif,
                       steps |-> <<"getExif", "isCorrectFileName", "getDateFromExif">>]
                 ELSE IF dateFromFileName.defined
                 THEN [threw |-> FALSE, result |-> dateFromFileName,
                       steps |-> <<"getExif", "isCorrectFileName", "getDateFromExif",
                                   "getDateFromFileName">>]
                 ELSE [threw |-> FALSE, result |-> dateFromUnixTimestamp,
                       steps |-> <<"getExif", "isCorrectFileName", "getDateFromExif",
                                   "getDateFromFileName", "getDateFromUnixTimestamp">>]

\* #getDate: the result, whether it threw, and the steps it went through
getDate(filePath, exec) ==
    LET file == pathParse(filePath)
    IN  IF isCorrectFileName(file)
        THEN [threw |-> FALSE, result |-> Undefined, steps |-> <<"isCorrectFileName">>]
        ELSE IF exec.threw
        THEN [threw |-> TRUE, result |-> Undefined,
              steps |-> <<"isCorrectFileName", "getExif">>]
        ELSE LET dateFromExif == getDateFromExif(getExif(exec.output))
                 dateFromFileName == getDateFromFileName(file)
                 dateFromUnixTimestamp == getDateFromUnixTimestamp(file)
             IN  IF dateFromExif.defined
                 THEN [threw |-> FALSE, result |-> dateFromExif,
                       steps |-> <<"isCorrectFileName", "getExif", "getDateFromExif">>]
                 ELSE IF dateFromFileName.defined
                 THEN [threw |-> FALSE, result |-> dateFromFileName,
                       steps |-> <<"isCorrectFileName", "getExif", "getDateFromExif",
                                   "getDateFromFileName">>]
                 ELSE [threw |-> FALSE, result |-> dateFromUnixTimestamp,
                       steps |-> <<"isCorrectFileName", "getExif", "getDateFromExif",
                                   "getDateFromFileName", "getDateFromUnixTimestamp">>]

(***************************************************************************)
(* The directory cache.  The filesystem is a map from a directory to what  *)
(* fs.readdirSync gives for it; a spelling of a directory (d, ./d) lists   *)
(* the directory it names.                                                 *)
(***************************************************************************)
ListingFails == [threw |-> TRUE, entries |-> {}]

Listing(entries) == [threw |-> FALSE, entries |-> entries]

\* fs.readdirSync(dir): throws ENOENT for the empty path and for a
\* directory that does not exist
readdirSync(fs, dir) ==
    IF dir = <<>> \/ pathNormalize(dir) \notin DOMAIN fs
    THEN ListingFails
    ELSE fs[pathNormalize(dir)]

\* a cache in which the set of a new directory starts with the names of
\* the directories cached before
getDirCache_SharedSet(cache, fs, dir) ==
    IF dir \in DOMAIN cache
    THEN [cache |-> cache, set |-> cache[dir], reads |-> <<>>]
    ELSE LET listed  == readdirSync(fs, dir)
             entries == IF listed.threw THEN {} ELSE listed.entries
             set     == {toLowerCase(name) : name \in entries}
                        \cup UNION {cache[d] : d \in DOMAIN cache}
         IN  [cache |-> [d \in DOMAIN cache \cup {dir} |->
                            IF d = dir THEN set ELSE cache[d]],
              set |-> set, reads |-> <<dir>>]

\* #getDirCache: the cached set, or the lower-cased listing (empty when
\* the listing throws), which is then cached; reads holds the directories
\* listed by this call
getDirCache(cache, fs, dir) ==
    IF dir \in DOMAIN cache
    THEN [cache |-> cache, set |-> cache[dir], reads |-> <<>>]
    ELSE LET listed  == readdirSync(fs, dir)
             entries == IF listed.threw THEN {} ELSE listed.entries
             set     == {toLowerCase(name) : name \in entries}
         IN  [cache |-> [d \in DOMAIN cache \cup {dir} |->
                            IF d = dir THEN set ELSE cache[d]],
              set |-> set, reads |-> <<dir>>]

\* #addToDirCache
addToDirCache(cache, fs, dir, nameLower) ==
    LET got == getDirCache(cache, fs, dir)
    IN  [cache |-> [got.cache EXCEPT ![dir] = got.set \cup {nameLower}],
         reads |-> got.reads]

\* one character of a pattern text handed to new RegExp: a dot matches
\* any character but a line terminator, a letter, digit or underscore
\* matches itself
patternCharMatches(pc, c) ==
    IF pc = "." THEN c \notin {"\n", "\r"} ELSE pc = c

patternMatches(pattern, s) ==
    Len(s) = Len(pattern) /\ \A i \in 1..Len(s) : patternCharMatches(pattern[i], s[i])

\* name.match(new RegExp(`^${formattedDate}(?:_(\\d+))?${extLower}$`)):
\* found, and the text of the capture group (empty when it did not take
\* part in the match)
matchSuffix(name, formattedDate, extLower) ==
    LET head == Len(formattedDate)
        tail == Len(extLower)
        mid  == SubSeq(name, head + 1, Len(name) - tail)
    IN  IF /\ Len(name) >= head + tail
           /\ patternMatches(formattedDate, SubSeq(name, 1, head))
           /\ patternMatches(extLower, SubSeq(name, Len(name) - tail + 1, Len(name)))
           /\ \/ mid = <<>>
              \/ /\ Len(mid) >= 2
                 /\ Head(mid) = "_"
                 /\ \A i \in 2..Len(mid) : IsDigit(mid[i])
        THEN [found |-> TRUE, group |-> IF mid = <<>> THEN <<>> ELSE Tail(mid)]
        ELSE [found |-> FALSE, group |-> <<>>]

Max(S) == CHOOSE x \in S : \A y \in S : y <= x

\* #computeInitialIndex: the highest suffix among the cached names that
\* match the pattern of the bucket, -1 when there is none
computeInitialIndex(cache, fs, dir, formattedDate, extLower) ==
    LET got      == getDirCache(cache, fs, dir)
        matches  == {matchSuffix(name, formattedDate, extLower) : name \in got.set}
        suffixes == {parseInt(m.group) : m \in {x \in matches : x.found /\ x.group # <<>>}}
    IN  [cache |-> got.cache, reads |-> got.reads,
         value |-> Max(suffixes \cup {-1})]

\* the candidate name of an index
candidateName(formattedDate, extLower, idx) ==
    IF idx < 0
    THEN formattedDate \o extLower
    ELSE formattedDate \o <<"_">> \o numberToString(idx + 1) \o extLower

\* a search that takes the start index without looking at the set
firstFreeIndex_Unchecked(set, formattedDate, extLower, idx) == idx

\* the while loop of #nextAvailableIndex
RECURSIVE firstFreeIndex(_, _, _, _)
firstFreeIndex(set, formattedDate, extLower, idx) ==
    IF candidateName(formattedDate, extLower, idx) \notin set
    THEN idx
    ELSE firstFreeIndex(set, formattedDate, extLower, idx + 1)

\* #nextAvailableIndex
nextAvailableIndex(cache, fs, dir, formattedDate, extLower, startIndex) ==
    LET got == getDirCache(cache, fs, dir)
    IN  [cache |-> got.cache, reads |-> got.reads,
         value |-> firstFreeIndex(got.set, formattedDate, extLower, startIndex)]

(***************************************************************************)
(* The inputs of a run: file paths, outputs of the metadata tool and       *)
(* directory contents.                                                     *)
(***************************************************************************)
Stamp1 == <<"2", "0", "2", "0", "0", "1", "0", "1", "_", "0", "1", "0", "2", "0", "3">>

Stamp2 == <<"2", "0", "2", "1", "1", "2", "2", "5", "_", "1", "4", "2", "3", "5", "9">>

EpochText == <<"1", "5", "0", "0", "0", "0", "0", "0", "0", "0", "0", "0", "0">>

\* the formatted date of EpochText: 2017-07-14 02:40:00
StampEpoch == <<"2", "0", "1", "7", "0", "7", "1", "4", "_", "0", "2", "4", "0", "0", "0">>

DirD == <<"d">>

DirDotD == <<".", "/", "d">>

DirE == <<"e">>

ExtJpgUpper == <<".", "J", "P", "G">>

ExtTxt == <<".", "t", "x", "t">>

PathA == DirD \o <<"/", "a">> \o ExtJpg

PathB == DirDotD \o <<"/", "b">> \o ExtJpg

PathC == DirD \o <<"/", "c">> \o ExtJpgUpper

PathE == DirE \o <<"/", "a">> \o ExtJpg

PathV == DirD \o <<"/", "v">> \o ExtMp4

PathTxt == DirD \o <<"/", "n">> \o ExtTxt

PathCanon == DirD \o <<"/">> \o Stamp2 \o <<"_", "1">> \o ExtJpg

PathCanonPlain == DirD \o <<"/">> \o Stamp2 \o ExtJpg

PathDotfile == DirD \o <<"/">> \o ExtJpg

PathImg == DirD \o <<"/", "I", "M", "G", "_">> \o Stamp2 \o ExtJpg

PathEpoch == DirD \o <<"/">> \o EpochText \o <<"_", "p">> \o ExtJpg

\* file names that put the resolver's filename sources to the test
EpochLateText == <<"1", "5", "9", "9", "9", "9", "9", "9", "9", "9", "9", "9", "9">>

\* 1599999999999 ms after the epoch, in UTC
StampEpochLate == <<"2", "0", "2", "0", "0", "9", "1", "3", "_", "1", "2", "2", "6", "3", "9">>

PathEpochLate == DirD \o <<"/", "p">> \o EpochLateText \o ExtJpg

PathBoth == DirD \o <<"/", "x">> \o Stamp2 \o <<"_">> \o EpochText \o ExtJpg

PathTwoStamps == DirD \o <<"/", "x">> \o Stamp2 \o <<"_">> \o Stamp1 \o ExtJpg

PathTwoEpochs == DirD \o <<"/">> \o EpochText \o <<"x">> \o EpochLateText \o ExtJpg

NamePaths == {PathA, PathCanon, PathImg, PathEpoch, PathEpochLate, PathBoth,
              PathTwoStamps, PathTwoEpochs}

Paths == {PathA, PathB, PathC, PathE, PathV, PathTxt, PathDotfile,
          PathCanon, PathCanonPlain, PathImg, PathEpoch}

CreateDateKey == <<"C", "r", "e", "a", "t", "e", " ", "D", "a", "t", "e", " ", " ", ":", " ">>

CreateDateValue == <<"2", "0", "2", "0", ":", "0", "1", ":", "0", "1", " ",
                     "0", "1", ":", "0", "2", ":", "0", "3">>

LineComment == <<"C", "o", "m", "m", "e", "n", "t", " ", " ", ":", " ",
                 "a", ":", "b", "\n">>

\* no Create Date line
OutNoDate == LineComment

\* Create Date : 2020:01:01 01:02:03
OutDate == LineComment \o CreateDateKey \o CreateDateValue

\* Create Date : 2020:01:01 01:02:03.123+02:00
OutDateFraction ==
    LineComment \o CreateDateKey \o CreateDateValue
    \o <<".", "1", "2", "3", "+", "0", "2", ":", "0", "0">>

\* Create Date : 2020:01:01 01:02:03+02:00
OutDateZone ==
    LineComment \o CreateDateKey \o CreateDateValue \o <<"+", "0", "2", ":", "0", "0">>

Execs == {ExecThrows, ExecReturns(OutNoDate), ExecReturns(OutDate),
          ExecReturns(OutDateFraction), ExecReturns(OutDateZone)}

NameBase == Stamp1 \o ExtJpg

NameBaseUpper == Stamp1 \o ExtJpgUpper

NameOne == Stamp1 \o <<"_", "1">> \o ExtJpg

NameTwo == Stamp1 \o <<"_", "2">> \o ExtJpg

NameNoDot == Stamp1 \o <<"_", "5", "x", "j", "p", "g">>

NameNotes == <<"n", "o", "t", "e", "s">> \o ExtTxt

Dirs(inD, inE) == [d \in {DirD, DirE} |-> IF d = DirD THEN inD ELSE inE]

Disks ==
    { Dirs(Listing({}), Listing({})),
      Dirs(Listing({NameBase, NameNotes}), Listing({NameBase})),
      Dirs(Listing({NameBaseUpper, NameOne, NameTwo}), Listing({})),
      Dirs(Listing({NameTwo}), Listing({})),
      Dirs(Listing({NameNoDot}), Listing({})),
      Dirs(ListingFails, Listing({})) }

(***************************************************************************)
(* replace(filePath): the path returned, the caches it leaves, and what    *)
(* the call went through.                                                  *)
(***************************************************************************)
\* a call of #getDate with no try around it
catchGetDate_Rethrow(got) == got

\* try { ... date = this.#getDate(filePath) ... } catch (error) {}
catchGetDate(got) ==
    IF got.threw
    THEN [threw |-> FALSE, result |-> Undefined, steps |-> got.steps]
    ELSE got

\* try { format ... } catch (error) { return filePath }
catchFormat(formatted) ==
    IF formatted.threw
    THEN [threw |-> FALSE, failed |-> TRUE, text |-> <<>>]
    ELSE [threw |-> FALSE, failed |-> FALSE, text |-> formatted.text]

\* isImage(file) || isVideo(file)
isSupported(file) == isImage(file) \/ isVideo(file)

\* lines 27 to 31: the date of a supported file, with the try around it
tryGetDate(filePath, exec, supported) ==
    IF supported
    THEN catchGetDate(getDate(filePath, exec))
    ELSE [threw |-> FALSE, result |-> Undefined, steps |-> <<>>]

\* lines 33 to 38: the text of the date when there is one to format
tryFormat(got) ==
    IF got.threw \/ ~got.result.defined
    THEN [threw |-> FALSE, failed |-> FALSE, tried |-> FALSE, text |-> <<>>]
    ELSE [tried |-> TRUE] @@ catchFormat(format(got.result.date))

\* lines 40 and 41: extLower and baseKey
resolveKey(file, got, formatted, extLower) ==
    [file |-> file, supported |-> isSupported(file), got |-> got,
     formatted |-> formatted, extLower |-> extLower,
     baseKey |-> pathJoin(file.dir, formatted.text \o extLower)]

resolveDate(file, got) == resolveKey(file, got, tryFormat(got), toLowerCase(file.ext))

resolveFile(filePath, exec, file) ==
    resolveDate(file, tryGetDate(filePath, exec, isSupported(file)))

\* the part of replace that reads no cache (lines 24 to 41): the parsed
\* path, the classification, the resolved date, its formatted text and
\* the key of the bucket
resolve(filePath, exec) == resolveFile(filePath, exec, pathParse(filePath))

\* resolve, computed once for every input of the model
Resolved == [filePath \in Paths, exec \in Execs |-> resolve(filePath, exec)]

\* resolve, computed once for every input of the resolver's runs
NameResolved == [filePath \in NamePaths, exec \in Execs |-> resolve(filePath, exec)]

\* the call goes to the end of replace: the file is supported, a date was
\* resolved and formatted
reachesRename(res) ==
    /\ res.supported
    /\ ~res.got.threw
    /\ res.got.result.defined
    /\ res.formatted.tried
    /\ ~res.formatted.threw
    /\ ~res.formatted.failed

\* a replace that fetches the directory's known names before it looks at
\* the date: a call that returns its input has read the listing
unchanged_ReadsListing(filePath, res) ==
    LET got == getDirCache(dirCache, disk, res.file.dir)
    IN  [out |-> filePath, raised |-> res.got.threw \/ res.formatted.threw,
         renamed |-> FALSE, indexMap |-> indexMap, dirCache |-> got.cache,
         reads |-> got.reads,
         steps |-> IF res.formatted.tried THEN Append(res.got.steps, "format")
                   ELSE res.got.steps,
         file |-> res.file, formattedDate |-> <<>>, baseKey |-> <<>>,
         seeded |-> FALSE, startIndex |-> -1, nextIndex |-> -1]

\* a call that returns its input (lines 34 and 60), or lets an exception
\* out where no catch holds it
unchanged(filePath, res) ==
    [out |-> filePath, raised |-> res.got.threw \/ res.formatted.threw,
     renamed |-> FALSE, indexMap |-> indexMap, dirCache |-> dirCache,
     reads |-> <<>>,
     steps |-> IF res.formatted.tried THEN Append(res.got.steps, "format")
               ELSE res.got.steps,
     file |-> res.file, formattedDate |-> <<>>, baseKey |-> <<>>,
     seeded |-> FALSE, startIndex |-> -1, nextIndex |-> -1]

\* lines 43 to 46: the index of the bucket, seeded from the listing when
\* #indexMap has none
seedIndex(res, seeded) ==
    IF seeded
    THEN computeInitialIndex(dirCache, disk, res.file.dir, res.formatted.text, res.extLower)
    ELSE [cache |-> dirCache, reads |-> <<>>, value |-> indexMap[res.baseKey]]

\* line 50
indexStrOf(nextIndex) ==
    IF nextIndex < 0 THEN <<>> ELSE <<"_">> \o numberToString(nextIndex + 1)

\* an update that stores the index the search started from
renamed_KeepsFloor(res, seeded, initial, next, indexStr, added) ==
    [out |-> pathJoin(res.file.dir, res.formatted.text \o indexStr \o res.file.ext),
     raised |-> FALSE, renamed |-> TRUE,
     indexMap |-> [k \in DOMAIN indexMap \cup {res.baseKey} |->
                      IF k = res.baseKey THEN initial.value ELSE indexMap[k]],
     dirCache |-> added.cache,
     reads |-> initial.reads \o next.reads \o added.reads,
     steps |-> res.got.steps \o <<"format">>
               \o (IF seeded THEN <<"computeInitialIndex">> ELSE <<>>)
               \o <<"nextAvailableIndex", "addToDirCache">>,
     file |-> res.file, formattedDate |-> res.formatted.text,
     baseKey |-> res.baseKey, seeded |-> seeded,
     startIndex |-> initial.value, nextIndex |-> next.value]

\* lines 52 to 58: the new path, and the index map and the cache updated
renamed(res, seeded, initial, next, indexStr, added) ==
    [out |-> pathJoin(res.file.dir, res.formatted.text \o indexStr \o res.file.ext),
     raised |-> FALSE, renamed |-> TRUE,
     indexMap |-> [k \in DOMAIN indexMap \cup {res.baseKey} |->
                      IF k = res.baseKey THEN next.value ELSE indexMap[k]],
     dirCache |-> added.cache,
     reads |-> initial.reads \o next.reads \o added.reads,
     steps |-> res.got.steps \o <<"format">>
               \o (IF seeded THEN <<"computeInitialIndex">> ELSE <<>>)
               \o <<"nextAvailableIndex", "addToDirCache">>,
     file |-> res.file, formattedDate |-> res.formatted.text,
     baseKey |-> res.baseKey, seeded |-> seeded,
     startIndex |-> initial.value, nextIndex |-> next.value]

(***************************************************************************)
(* The state machine: a new engine, then replace calls one after another.  *)
(***************************************************************************)
NoCall ==
    [n |-> 0, filePath |-> <<>>, exec |-> ExecThrows, out |-> <<>>,
     raised |-> FALSE, renamed |-> FALSE, reads |-> <<>>, steps |-> <<>>,
     file |-> pathParse(<<>>), formattedDate |-> <<>>, baseKey |-> <<>>,
     seeded |-> FALSE, startIndex |-> -1, nextIndex |-> -1]

Init ==
    /\ indexMap = <<>>
    /\ dirCache = <<>>
    /\ disk \in Disks
    /\ readCount = <<>>
    /\ returned = {}
    /\ renames = <<>>
    /\ last = NoCall

Count(f, k) == IF k \in DOMAIN f THEN f[k] ELSE 0

\* the call has returned r: the engine's state after it, and the record
\* of the call
Returns(filePath, exec, r) ==
    /\ indexMap' = r.indexMap
    /\ dirCache' = r.dirCache
    /\ readCount' = [d \in DOMAIN readCount \cup Range(r.reads) |->
                        Count(readCount, d)
                        + Cardinality({i \in DOMAIN r.reads : r.reads[i] = d})]
    /\ renames' = IF r.renamed
                  THEN [k \in DOMAIN renames \cup {r.baseKey} |->
                           Count(renames, k) + (IF k = r.baseKey THEN 1 ELSE 0)]
                  ELSE renames
    /\ last' = [n |-> last.n + 1, filePath |-> filePath, exec |-> exec,
                out |-> r.out, raised |-> r.raised, renamed |-> r.renamed,
                reads |-> r.reads, steps |-> r.steps, file |-> r.file,
                formattedDate |-> r.formattedDate, baseKey |-> r.baseKey,
                seeded |-> r.seeded, startIndex |-> r.startIndex,
                nextIndex |-> r.nextIndex]
    /\ returned' = returned \cup (IF last.renamed THEN {last.out} ELSE {})
    /\ UNCHANGED disk

\* replace(filePath) from line 33 on, res being what lines 24 to 41 gave
Call(filePath, exec, res) ==
    IF ~reachesRename(res)
    THEN \E r \in {unchanged(filePath, res)} : Returns(filePath, exec, r)
    ELSE \E seeded \in {res.baseKey \notin DOMAIN indexMap} :
         \E initial \in {seedIndex(res, seeded)} :
         \E next \in {nextAvailableIndex(initial.cache, disk, res.file.dir,
                                         res.formatted.text, res.extLower,
                                         initial.value)} :
         \E indexStr \in {indexStrOf(next.value)} :
         \E added \in {addToDirCache(next.cache, disk, res.file.dir,
                                     res.formatted.text \o indexStr \o res.extLower)} :
         \E r \in {renamed(res, seeded, initial, next, indexStr, added)} :
             Returns(filePath, exec, r)

\* replace(filePath), with exec for what execSync does when it is called
Replace(filePath, exec) ==
    /\ last.n < MaxCalls
    /\ \E res \in {Resolved[filePath, exec]} : Call(filePath, exec, res)

Next == \E filePath \in Paths, exec \in Execs : Replace(filePath, exec)

Spec == Init /\ [][Next]_vars

(***************************************************************************)
(* The resolver's runs: replace calls on file names that hold one, two or  *)
(* no filename source, and replace called again on the path the call       *)
(* before returned, with the same metadata.                                *)
(***************************************************************************)
MaxNameCalls == 2

ReplaceName(filePath, exec) ==
    /\ last.n < MaxNameCalls
    /\ \E res \in {NameResolved[filePath, exec]} : Call(filePath, exec, res)

\* replace(replace(p)): the input is the output of the call before
ReplaceAgain ==
    /\ last.n > 0
    /\ last.n <= MaxNameCalls
    /\ \E res \in {resolve(last.out, last.exec)} : Call(last.out, last.exec, res)

NextNames ==
    \/ \E filePath \in NamePaths, exec \in Execs : ReplaceName(filePath, exec)
    \/ ReplaceAgain

SpecNames == Init /\ [][NextNames]_vars

(***************************************************************************)
(* The search of #nextAvailableIndex on its own: the known-name set of     *)
(* directory d is any set of names of one bucket and of a foreign name,    *)
(* and the search is called with any start index.  The record of the call  *)
(* holds the start index and the index returned.                           *)
(***************************************************************************)
MaxIdx == 3

SearchIndexes == (-1)..MaxIdx

SearchNames ==
    {candidateName(Stamp1, ExtJpg, idx) : idx \in SearchIndexes} \cup {NameNotes}

InitSearch ==
    /\ indexMap = <<>>
    /\ dirCache \in {[dir \in {DirD} |-> set] : set \in SUBSET SearchNames}
    /\ disk = Dirs(Listing({}), Listing({}))
    /\ readCount = <<>>
    /\ returned = {}
    /\ renames = <<>>
    /\ last = NoCall

Search(startIndex) ==
    /\ \E next \in {nextAvailableIndex(dirCache, disk, DirD, Stamp1, ExtJpg, startIndex)} :
           last' = [NoCall EXCEPT !.n = 1, !.reads = next.reads,
                                  !.formattedDate = Stamp1,
                                  !.startIndex = startIndex,
                                  !.nextIndex = next.value]
    /\ UNCHANGED <<indexMap, dirCache, disk, readCount, returned, renames>>

NextSearch == \E startIndex \in SearchIndexes : Search(startIndex)

SpecSearch == InitSearch /\ [][NextSearch]_vars

(***************************************************************************)
(* #getDateFromUnixTimestamp on its own: the base name is one 13-digit     *)
(* value of milliseconds since the epoch, from the years around the        *)
(* pattern's range.  The values are four leading digits and nine more,     *)
(* all 0 (the first millisecond of the prefix) or all 9 (the last).        *)
(***************************************************************************)
MinPrefix == 1480

MaxPrefix == 1865

FillLow == <<"0", "0", "0", "0", "0", "0", "0", "0", "0">>

FillHigh == <<"9", "9", "9", "9", "9", "9", "9", "9", "9">>

EpochTexts ==
    {numberToString(prefix) \o fill : prefix \in MinPrefix..MaxPrefix,
                                      fill \in {FillLow, FillHigh}}

InitEpoch ==
    /\ indexMap = <<>>
    /\ dirCache = <<>>
    /\ disk = Dirs(Listing({}), Listing({}))
    /\ readCount = <<>>
    /\ returned = {}
    /\ renames = <<>>
    /\ last = NoCall

\* lines 111 to 123, and line 38 on the date they return
Probe(text) ==
    /\ last.n = 0
    /\ \E filePath \in {DirD \o <<"/">> \o text \o ExtJpg} :
       \E date \in {getDateFromUnixTimestamp(pathParse(filePath))} :
           last' = [NoCall EXCEPT !.n = 1, !.filePath = filePath,
                                  !.file = pathParse(filePath),
                                  !.steps = <<"getDateFromUnixTimestamp">>,
                                  !.formattedDate =
                                      IF date.defined THEN format(date.date).text
                                      ELSE <<>>]
    /\ UNCHANGED <<indexMap, dirCache, disk, readCount, returned, renames>>

NextEpoch == \E text \in EpochTexts : Probe(text)

SpecEpoch == InitEpoch /\ [][NextEpoch]_vars

(***************************************************************************)
(* What the properties below speak about.                                  *)
(***************************************************************************)
\* a replace call has been made
Called == last.n > 0

\* the file name of the path the last call returned
OutName == pathParse(last.out).base

\* the last call went through the step
Did(step) == step \in Range(last.steps)

\* the listing of the directory of the last input, lower-cased
ListedLower ==
    {toLowerCase(name) : name \in readdirSync(disk, last.file.dir).entries}

\* a listing was read by the last call and threw
ListingThrew == \E i \in DOMAIN last.reads : readdirSync(disk, last.reads[i]).threw

\* name is a name of the bucket of formattedDate and extLower: the
\* unsuffixed name (suffix 0 here) or the name with the suffix _n
IsBucketName(name, formattedDate, extLower, n) ==
    name = formattedDate \o (IF n = 0 THEN <<>> ELSE <<"_">> \o numberToString(n))
           \o extLower

\* the suffixes of the names of the bucket of the last call in the
\* listing of its directory; they stay below SuffixRange in this model
SuffixRange == 0..9

ListedSuffixes ==
    {n \in SuffixRange :
        \E name \in ListedLower :
            IsBucketName(name, last.formattedDate, toLowerCase(last.file.ext), n)}

\* the name with the suffix _n (none for n = 0) and the extension of the
\* last input
NameWithSuffix(n) ==
    last.formattedDate \o (IF n = 0 THEN <<>> ELSE <<"_">> \o numberToString(n))
    \o last.file.ext

\* the number of the last call among the renaming calls of its bucket
NthOfBucket == renames[last.baseKey]

\* the extensions the engine supports
SupportedExtensions ==
    { <<"j", "p", "g">>, <<"j", "p", "e", "g">>, <<"p", "n", "g">>, <<"g", "i", "f">>,
      <<"b", "m", "p">>, <<"h", "e", "i", "c">>, <<"m", "p", "4">>, <<"m", "o", "v">> }

\* the extension of the last input is a supported one, letter case ignored
Supported ==
    /\ last.file.ext # <<>>
    /\ Tail(toLowerCase(last.file.ext)) \in SupportedExtensions

\* the base name of the last input starts with \d{8}_\d{6,}
Canonical == stampAt(last.file.name, 1)

\* the metadata tool was run by the last call and threw
MetadataThrew == Did("getExif") /\ last.exec.threw

\* the formatting of the resolved date was tried and failed
FormatFailed == Did("format") /\ ~last.renamed

(***************************************************************************)
(* C1: no two renaming calls of one engine return the same output path,    *)
(* compared case-insensitively, whatever the spelling of the directory.    *)
(* The code keys #dirCache by the directory as spelled and #indexMap by    *)
(* the joined path, so d/a.jpg and ./d/b.jpg get the same output.          *)
(***************************************************************************)
C1_NoDuplicateOutput ==
    last.renamed =>
        \A earlier \in returned : toLowerCase(earlier) # toLowerCase(last.out)

(***************************************************************************)
(* C2: the lower-cased file name a renaming call returns is not in the     *)
(* lower-cased listing of the directory of its input.                      *)
(***************************************************************************)
C2_NameNotListed == last.renamed => toLowerCase(OutName) \notin ListedLower

\* a rename in a directory whose listing holds the names up to _2 of the
\* bucket: the call went past them
C2_Witness ==
    /\ last.renamed
    /\ ListedSuffixes = {0, 1, 2}
    /\ last.nextIndex >= 2

(***************************************************************************)
(* C3: when the listing holds no name of the bucket, the first renaming    *)
(* call of the bucket returns the unsuffixed name and the j-th one, from   *)
(* the second on, the name with the suffix _(j-1).                         *)
(***************************************************************************)
C3_ConsecutiveFromUnsuffixed ==
    (last.renamed /\ ListedSuffixes = {}) => OutName = NameWithSuffix(NthOfBucket - 1)

(***************************************************************************)
(* C4: when the listing holds names of the bucket with the highest suffix  *)
(* k (0 for the unsuffixed name alone), the j-th renaming call of the      *)
(* bucket returns the name with the suffix _(k+j).                         *)
(***************************************************************************)
C4_ContinuesAfterHighest ==
    (last.renamed /\ ListedSuffixes # {}) =>
        OutName = NameWithSuffix(Max(ListedSuffixes) + NthOfBucket)

(***************************************************************************)
(* C5: the letter case of the extension is ignored when collisions are     *)
(* detected and kept in the output: the second renaming call of a bucket   *)
(* is suffixed, a listed name that differs only in case counts as taken,   *)
(* and the returned name ends with the extension of the input as given.    *)
(***************************************************************************)
C5_ExtensionCase ==
    last.renamed =>
        /\ NthOfBucket >= 2 => OutName # NameWithSuffix(0)
        /\ 0 \in ListedSuffixes => OutName # NameWithSuffix(0)
        /\ pathParse(last.out).ext = last.file.ext

(***************************************************************************)
(* C6: a path whose extension is not a supported one, letter case          *)
(* ignored, is returned unchanged, whatever the metadata tool gives and    *)
(* whatever the caches hold.                                               *)
(***************************************************************************)
C6_UnsupportedUnchanged ==
    (Called /\ ~Supported) => (last.out = last.filePath /\ ~last.renamed)

\* an unsupported file for which the tool gives a date, on an engine that
\* has renamed before
C6_Witness ==
    /\ Called
    /\ ~Supported
    /\ last.exec = ExecReturns(OutDate)
    /\ DOMAIN indexMap # {}

(***************************************************************************)
(* C7: a supported path whose base name starts with \d{8}_\d{6,} is        *)
(* returned unchanged, also when the CreateDate differs from the name.     *)
(***************************************************************************)
C7_CanonicalUnchanged ==
    (Called /\ Supported /\ Canonical) => (last.out = last.filePath /\ ~last.renamed)

\* a canonical name with trailing text and a CreateDate of another day
C7_Witness ==
    /\ Called
    /\ last.filePath = PathCanon
    /\ last.exec = ExecReturns(OutDate)
    /\ last.out = PathCanon

(***************************************************************************)
(* C8, as claimed: replace never raises, and whenever a step fails (the    *)
(* metadata tool, the formatting, the directory listing) the returned      *)
(* path is the input path.                                                 *)
(***************************************************************************)
C8_FailureLeavesInput ==
    Called =>
        /\ ~last.raised
        /\ (MetadataThrew \/ FormatFailed \/ ListingThrew) => last.out = last.filePath

(***************************************************************************)
(* C8, amended: replace never raises; when the metadata tool throws or     *)
(* the date cannot be formatted the returned path is the input path; a     *)
(* directory listing that throws is read as empty and the file is renamed. *)
(***************************************************************************)
C8_NeverRaises ==
    Called =>
        /\ ~last.raised
        /\ (MetadataThrew \/ FormatFailed) => last.out = last.filePath
        /\ ListingThrew => (last.renamed /\ last.out # last.filePath)

\* the metadata tool threw on an engine that has renamed before
C8_Witness ==
    /\ Called
    /\ MetadataThrew
    /\ DOMAIN indexMap # {}

(***************************************************************************)
(* C9, as claimed: when the metadata tool throws, a supported file that    *)
(* is not canonical and whose base name holds a timestamp or an epoch      *)
(* match is still renamed from the filename.                               *)
(***************************************************************************)
HasFileNameSource ==
    \/ matchStamp(last.file.name).found
    \/ matchEpoch(last.file.name).found

C9_FallbackAfterThrow ==
    (Called /\ Supported /\ ~Canonical /\ last.exec.threw /\ HasFileNameSource)
        => last.renamed

(***************************************************************************)
(* C9, amended: when the metadata tool throws, the resolver ends there:    *)
(* the filename is not asked, and a supported file that is not canonical   *)
(* is returned unchanged even when its base name holds a timestamp or an   *)
(* epoch match.                                                            *)
(***************************************************************************)
C9_NoFallbackAfterThrow ==
    (Called /\ Supported /\ ~Canonical /\ last.exec.threw /\ HasFileNameSource)
        => (~last.renamed /\ last.out = last.filePath
            /\ last.steps = <<"isCorrectFileName", "getExif">>)

\* the tool threw for a file whose name holds a timestamp
C9_Witness ==
    /\ Called
    /\ last.filePath = PathImg
    /\ last.exec.threw
    /\ last.out = PathImg

(***************************************************************************)
(* C10: when execSync throws, replace returns the input path and parses    *)
(* no filename, for every supported input.                                 *)
(***************************************************************************)
C10_ThrowReturnsInput ==
    (Called /\ Supported /\ last.exec.threw) =>
        /\ last.out = last.filePath
        /\ ~Did("getDateFromFileName")
        /\ ~Did("getDateFromUnixTimestamp")
        /\ ~Did("format")

\* execSync was called and threw
C10_Witness ==
    /\ Called
    /\ last.filePath = PathEpoch
    /\ MetadataThrew
    /\ last.out = PathEpoch

(***************************************************************************)
(* What the properties of the resolver speak about.                        *)
(***************************************************************************)
\* the tool's output holds a CreateDate that parses: 2020:01:01 01:02:03,
\* with or without a fraction and an offset after it
CreateDateParses ==
    last.exec \in {ExecReturns(OutDate), ExecReturns(OutDateFraction)}

\* the name that CreateDate gives
CreateDateStamp == Stamp1

\* the tool's output holds a CreateDate with the offset glued to the
\* seconds, which does not parse
CreateDateUnparseable == last.exec = ExecReturns(OutDateZone)

\* the tool ran and its output holds no CreateDate
NoCreateDate == last.exec = ExecReturns(OutNoDate)

\* the positions of the base name where the two filename patterns match
StampPositions == {i \in 1..Len(last.file.name) : stampAt(last.file.name, i)}

EpochPositions == {i \in 1..Len(last.file.name) : epochAt(last.file.name, i)}

\* the pattern occurs twice in the base name, one match after the other
TwoStampMatches == \E i, j \in StampPositions : j >= i + 15

TwoEpochMatches == \E i, j \in EpochPositions : j >= i + 13

\* the timestamp at the last position where the timestamp pattern matches
\* (the only one when there is one)
FirstStamp ==
    SubSeq(last.file.name, Max(StampPositions), Max(StampPositions) + 14)

\* the UTC time of the two epoch values of the model's file names
KnownEpochStamp(text) ==
    IF text = EpochText THEN StampEpoch
    ELSE IF text = EpochLateText THEN StampEpochLate
    ELSE <<>>

(***************************************************************************)
(* C11: a CreateDate that does not parse is treated as absent: a           *)
(* supported, non-canonical file whose base name holds one timestamp       *)
(* match, or no timestamp match and one epoch match, is still renamed,     *)
(* from the filename.  The code returns the Invalid Date of parse() as     *)
(* the date, format() throws on it, and the input path comes back.         *)
(***************************************************************************)
C11_UnparseableFallsThrough ==
    (/\ Called /\ Supported /\ ~Canonical /\ CreateDateUnparseable
     /\ \/ Cardinality(StampPositions) = 1
        \/ StampPositions = {} /\ Cardinality(EpochPositions) = 1)
        => (last.renamed /\ Did("getDateFromFileName"))

(***************************************************************************)
(* C12: a CreateDate that parses gives the name, whatever the base name    *)
(* holds; with no CreateDate a timestamp match in the base name gives the  *)
(* name, also when an epoch match is there too.                            *)
(***************************************************************************)
C12_SourcePrecedence ==
    (Called /\ Supported /\ ~Canonical) =>
        /\ CreateDateParses =>
               (last.renamed /\ last.formattedDate = CreateDateStamp)
        /\ (NoCreateDate /\ Cardinality(StampPositions) = 1) =>
               (last.renamed /\ last.formattedDate = FirstStamp)

\* the base name holds a timestamp and an epoch value, and the name comes
\* from the CreateDate, which is a third date
C12_Witness ==
    /\ Called
    /\ last.filePath = PathBoth
    /\ CreateDateParses
    /\ last.formattedDate = Stamp1

(***************************************************************************)
(* C13: with no CreateDate, a base name with two matches of the timestamp  *)
(* pattern gets no date from the timestamp step (the resolver goes on to   *)
(* the epoch step), and a base name with two matches of the epoch pattern  *)
(* and no timestamp match gets no date at all.  The code tests             *)
(* match.length, which is 1 for every match, and takes the first match.    *)
(***************************************************************************)
C13_AmbiguousSkipped ==
    (Called /\ Supported /\ ~Canonical /\ NoCreateDate) =>
        /\ TwoStampMatches => Did("getDateFromUnixTimestamp")
        /\ (StampPositions = {} /\ TwoEpochMatches) => ~last.renamed

(***************************************************************************)
(* C14: with no CreateDate and no timestamp match, one run of 13 digits    *)
(* that starts with 15 gives the name: the UTC time of that many           *)
(* milliseconds after the epoch.                                           *)
(***************************************************************************)
C14_EpochFallback ==
    (/\ Called /\ Supported /\ NoCreateDate
     /\ StampPositions = {} /\ Cardinality(EpochPositions) = 1) =>
        /\ last.renamed
        /\ \A i \in EpochPositions :
               /\ KnownEpochStamp(SubSeq(last.file.name, i, i + 12)) # <<>>
               /\ last.formattedDate
                      = KnownEpochStamp(SubSeq(last.file.name, i, i + 12))

\* the epoch value stands after a letter in the base name
C14_Witness ==
    /\ Called
    /\ last.filePath = PathEpochLate
    /\ NoCreateDate
    /\ last.formattedDate = StampEpochLate

(***************************************************************************)
(* C15: replace(replace(p)) = replace(p): a call on the path the call      *)
(* before returned, with the same metadata, returns that path.             *)
(***************************************************************************)
C15_Idempotent ==
    [][(/\ last.n > 0
        /\ last'.n = last.n + 1
        /\ last'.filePath = last.out
        /\ last'.exec = last.exec) => last'.out = last.out]_vars

\* the second call got a suffixed name that an earlier call returned, and
\* the tool gives a date for it
C15_Witness ==
    /\ Called
    /\ last.filePath \in returned
    /\ \E n \in 1..3 :
           last.file.base = Stamp1 \o <<"_">> \o numberToString(n) \o ExtJpg
    /\ last.exec = ExecReturns(OutDate)
    /\ last.out = last.filePath

(***************************************************************************)
(* What the properties of the caches speak about.                          *)
(***************************************************************************)
\* the number of times the listing of the directory was read, under
\* whatever spelling
ReadsOfDirectory(directory) ==
    LET spellings == {d \in DOMAIN readCount : pathNormalize(d) = directory}
        RECURSIVE Sum(_)
        Sum(S) == IF S = {} THEN 0
                  ELSE LET d == CHOOSE x \in S : TRUE
                       IN  readCount[d] + Sum(S \ {d})
    IN  Sum(spellings)

\* the name a new engine gives the last input on this disk
FreshName ==
    LET initial == computeInitialIndex(<<>>, disk, last.file.dir,
                                       last.formattedDate, toLowerCase(last.file.ext))
        next    == nextAvailableIndex(initial.cache, disk, last.file.dir,
                                      last.formattedDate, toLowerCase(last.file.ext),
                                      initial.value)
    IN  NameWithSuffix(next.value + 1)

\* the candidate name of the search's bucket for an index
SearchCandidate(idx) ==
    Stamp1 \o (IF idx < 0 THEN <<>> ELSE <<"_">> \o numberToString(idx + 1)) \o ExtJpg

(***************************************************************************)
(* C16: the listing of a directory is read at most once by one engine,     *)
(* however many calls are made for it.  The code caches by the spelling    *)
(* of the directory, so d is read again for ./d.                           *)
(***************************************************************************)
C16_ReadOncePerDirectory ==
    \A d \in DOMAIN readCount : ReadsOfDirectory(pathNormalize(d)) <= 1

(***************************************************************************)
(* C17: buckets are independent: the first renaming call of a bucket gets  *)
(* the name a new engine would give it, whatever was renamed before in     *)
(* other buckets (another directory, another extension, another            *)
(* timestamp).                                                             *)
(***************************************************************************)
C17_BucketsIndependent ==
    (last.renamed /\ NthOfBucket = 1) => OutName = FreshName

\* a video gets the unsuffixed name after an image of the same directory
\* and timestamp got it
C17_Witness ==
    /\ last.renamed
    /\ last.filePath = PathV
    /\ last.out = DirD \o <<"/">> \o Stamp1 \o ExtMp4
    /\ DirD \o <<"/">> \o Stamp1 \o ExtJpg \in returned

(***************************************************************************)
(* C18: a renaming call never lowers the index stored for a bucket, and    *)
(* the index it stores for its bucket is the one it assigned.              *)
(***************************************************************************)
C18_FloorNeverDecreases ==
    [][(last'.n = last.n + 1 /\ last'.renamed) =>
           /\ \A k \in DOMAIN indexMap :
                  k \in DOMAIN indexMap' /\ indexMap'[k] >= indexMap[k]
           /\ indexMap'[last'.baseKey] = last'.nextIndex]_vars

\* the index stored for a bucket by an earlier call went up
C18_Witness ==
    /\ last.renamed
    /\ ~last.seeded
    /\ last.startIndex >= 0
    /\ last.nextIndex > last.startIndex
    /\ indexMap[last.baseKey] = last.nextIndex

(***************************************************************************)
(* C19: the search returns the smallest index at or above the start index  *)
(* whose candidate name is not in the set, after no more steps than the    *)
(* set has names.                                                          *)
(***************************************************************************)
C19_SmallestFreeIndex ==
    Called =>
        /\ last.nextIndex >= last.startIndex
        /\ last.nextIndex <= last.startIndex + Cardinality(dirCache[DirD])
        /\ SearchCandidate(last.nextIndex) \notin dirCache[DirD]
        /\ \A idx \in last.startIndex..(last.nextIndex - 1) :
               SearchCandidate(idx) \in dirCache[DirD]

\* the search went past three taken names
C19_Witness ==
    /\ Called
    /\ last.nextIndex >= last.startIndex + 3
    /\ NameNotes \in dirCache[DirD]

(***************************************************************************)
(* C20: in a directory whose listing throws, the first renaming call of a  *)
(* bucket gets the unsuffixed name and the j-th the suffix _(j-1).         *)
(***************************************************************************)
C20_FailedListingIsEmpty ==
    (last.renamed /\ readdirSync(disk, last.file.dir).threw) =>
        OutName = NameWithSuffix(NthOfBucket - 1)

(***************************************************************************)
(* C21: the epoch pattern 15\d{11} covers the epoch-millisecond values of  *)
(* the years 2017 to 2028: every 13-digit value of a date in those years   *)
(* matches the pattern, and every value the pattern matches is a date in   *)
(* those years.  The pattern holds the two leading digits at 15, so it     *)
(* covers 1500000000000 to 1599999999999 only: 2017-07-14 02:40:00 UTC to  *)
(* 2020-09-13 12:26:39 UTC.                                                *)
(***************************************************************************)
\* the whole seconds of the 13-digit value that is the last call's name
EpochSeconds == parseInt(SubSeq(last.file.name, 1, 10))

\* the pattern matched the name: a date came back and was formatted
EpochMatched == last.formattedDate # <<>>

\* the year of the formatted date
FormattedYear == parseInt(SubSeq(last.formattedDate, 1, 4))

\* 2017-01-01 00:00:00 UTC is second 1483228800, 2021-01-01 is second
\* 1609459200 and 2029-01-01 is second 1861920000
InYears2017To2028 == 1483228800 <= EpochSeconds /\ EpochSeconds < 1861920000

InYears2021To2028 == 1609459200 <= EpochSeconds /\ EpochSeconds < 1861920000

\* C21 as stated: a value of 2017 to 2028 matches, and a matched value lies
\* in 2017 to 2028
C21_CoversTo2028 ==
    Called =>
        /\ InYears2017To2028 => EpochMatched
        /\ EpochMatched => FormattedYear \in 2017..2028

\* C21, amended: the pattern matches exactly the values 1500000000000 to
\* 1599999999999; each of them is a date of the years 2017 to 2020, and no
\* value of a date of the years 2021 to 2028 matches
C21_CoversTo2020 ==
    Called =>
        /\ EpochMatched <=> (1500000000 <= EpochSeconds /\ EpochSeconds <= 1599999999)
        /\ EpochMatched => FormattedYear \in 2017..2020
        /\ InYears2021To2028 => ~EpochMatched

\* the last value the pattern matches, 1599999999999, comes back as
\* 2020-09-13 12:26:39
C21_Witness ==
    /\ Called
    /\ last.file.name = EpochLateText
    /\ last.formattedDate = StampEpochLate

(***************************************************************************)
(* C22: a replace call that returns its input path (unsupported            *)
(* extension, canonical name, no date found, metadata failure, formatting  *)
(* failure) leaves #indexMap and #dirCache exactly as they were and reads  *)
(* no directory listing; only a call that renames changes the suffix       *)
(* counter or the known-name sets.                                         *)
(***************************************************************************)
C22_UnchangedLeavesCaches ==
    [][(last'.n = last.n + 1) =>
          /\ (last'.out = last'.filePath) =>
                 /\ indexMap' = indexMap
                 /\ dirCache' = dirCache
                 /\ readCount' = readCount
                 /\ last'.reads = <<>>
          /\ (indexMap' # indexMap \/ dirCache' # dirCache) =>
                 /\ last'.renamed
                 /\ last'.out # last'.filePath]_vars

\* an engine that has renamed, so both caches hold entries, gets a file
\* whose date cannot be formatted and returns its path
C22_Witness ==
    /\ FormatFailed
    /\ last.out = last.filePath
    /\ last.reads = <<>>
    /\ DOMAIN indexMap # {}
    /\ DOMAIN dirCache # {}

(***************************************************************************)
(* C23: the metadata tool is run at most once in a replace call, and not   *)
(* at all when the extension is unsupported or the base name is already    *)
(* canonical; so a call on a path that an earlier call of the engine       *)
(* returned as a new name runs no tool.                                    *)
(***************************************************************************)
\* the number of times the last call ran the tool
ToolRuns == Cardinality({i \in DOMAIN last.steps : last.steps[i] = "getExif"})

C23_ToolAtMostOnce ==
    Called =>
        /\ ToolRuns <= 1
        /\ (~Supported \/ Canonical) => ToolRuns = 0
        /\ last.filePath \in returned => ToolRuns = 0

\* a name the engine handed out comes back as input, with a tool that
\* would throw: the path is returned and the tool was not run
C23_Witness ==
    /\ Called
    /\ last.filePath \in returned
    /\ last.exec = ExecThrows
    /\ ToolRuns = 0
    /\ ~last.raised
    /\ last.out = last.filePath

====
